---- MODULE Spec2Model ----
(***************************************************************************)
(* A model of roam2tex.py: the line-driven conversion of an indented Roam   *)
(* markdown outline into LaTeX (convert_to_tex), with its per-line text     *)
(* substitutions (replace_markup_via, render_citation and the regular       *)
(* expressions of convert_to_tex).                                          *)
(*                                                                          *)
(* Text is a sequence of tokens.  A token is one character ("#", " ", "$",  *)
(* "[", "*", ...), or a whole word whose inside no pattern of the program   *)
(* looks at: a run of letters ("itemize", "tags", "a"), the input           *)
(* "\begin{" and the commands the program itself emits ("\emph{",           *)
(* "\section{", "\item ", ...).                                             *)
(***************************************************************************)
EXTENDS Integers, Sequences, FiniteSets, TLC

\* ------------------------------------------------------------------ bounds
\* Number of input lines of a conversion.
MaxLines == 4
\* Largest indent (leading spaces) of an input line.
MaxIndent == 2
\* Largest configured indent size (indent_size ranges over 1..MaxIndentSize).
MaxIndentSize == 2
\* Number of pieces an input line of the text specification is built from.
MaxPieces == 4

\* ------------------------------------------------------------ values
\* Python's None (section_indent, par_indent before they are set): a value that
\* is no indent.
None == -1
\* The line terminator every line read from the file ends with.
NL == "\n"

\* Runs of letters and of digits, as the character classes [a-zA-Z] and [0-9].
Letters == {"a", "x", "T", "tags", "itemize", "enumerate", "proof"}
Digits == {"1"}

\* ------------------------------------------------------------ strings
Min(S) == CHOOSE x \in S : \A y \in S : x <= y
Max(S) == CHOOSE x \in S : \A y \in S : x >= y

\* str.startswith
StartsWith(s, p) == Len(s) >= Len(p) /\ SubSeq(s, 1, Len(p)) = p

\* str.find from index `from` (1-based): the first index where p occurs, 0 if none.
Find(s, p, from) ==
    LET n == Len(p)
        at == {i \in from..(Len(s) - n + 1) : SubSeq(s, i, i + n - 1) = p}
    IN  IF at = {} THEN 0 ELSE Min(at)

\* The part of a line a regular expression's `.` can run over: up to the first
\* line terminator.
DotEnd(s) ==
    LET i == Find(s, <<NL>>, 1) IN IF i = 0 THEN Len(s) ELSE i - 1

\* str.split(delims): the chunks between the non-overlapping occurrences of
\* delims, scanned left to right.
RECURSIVE split(_, _)
split(text, delims) ==
    LET i == Find(text, delims, 1)
    IN  IF i = 0
        THEN <<text>>
        ELSE <<SubSeq(text, 1, i - 1)>>
             \o split(SubSeq(text, i + Len(delims), Len(text)), delims)

\* "".join(chunks)
RECURSIVE join(_)
join(chunks) ==
    IF chunks = <<>> THEN <<>> ELSE Head(chunks) \o join(Tail(chunks))

\* str.replace(old, new): every non-overlapping occurrence, left to right.
RECURSIVE replace(_, _, _)
replace(text, old, new) ==
    LET i == Find(text, old, 1)
    IN  IF i = 0
        THEN text
        ELSE SubSeq(text, 1, i - 1) \o new
             \o replace(SubSeq(text, i + Len(old), Len(text)), old, new)

\* The number of non-overlapping occurrences of delims in text (str.count).
count(text, delims) == Len(split(text, delims)) - 1

\* ------------------------------------------------------------ render_citation
\* ^[a-zA-Z]+[0-9]+[a-zA-Z]*$ : letters, then digits, then maybe letters.
\* (`$` also matches before one trailing line terminator.)
IsCiteKey(link_text) ==
    LET body == IF link_text # <<>> /\ link_text[Len(link_text)] = NL
                THEN SubSeq(link_text, 1, Len(link_text) - 1)
                ELSE link_text
        n == Len(body)
    IN  \E i \in 1..n : \E j \in i..n :
            /\ i >= 2
            /\ \A k \in 1..(i - 1) : body[k] \in Letters
            /\ \A k \in i..j : body[k] \in Digits
            /\ \A k \in (j + 1)..n : body[k] \in Letters

\* The text render_citation returns for a key-shaped link: the literal
\* "\\cite{link_text}" (the string is not an f-string).
CiteLiteral == <<"\\cite{", "l", "i", "n", "k", "_", "t", "e", "x", "t", "}">>

BracketsKept(link_text) == <<"[", "[">> \o link_text \o <<"]", "]">>

render_citation(link_text) ==
    IF ~IsCiteKey(link_text) THEN link_text ELSE CiteLiteral

\* ------------------------------------------------------------ replace_markup_via
\* fun(t) of the three callers: f"\\cmd{{{t}}}".
Wrap(cmd, t) == <<cmd>> \o t \o <<"}">>

WrapEvenChunks(text, delims, cmd) ==
    LET chunks == split(text, delims)
    IN  join([i \in 1..Len(chunks) |->
                IF i % 2 = 1 /\ i > 1 THEN Wrap(cmd, chunks[i]) ELSE chunks[i]])

\* chunks[i] for i in range(1, len(chunks), 2) are the 2nd, 4th, ... chunks.
replace_markup_via(text, delims, cmd) ==
    LET chunks == split(text, delims)
    IN  join([i \in 1..Len(chunks) |->
                IF i % 2 = 0 THEN Wrap(cmd, chunks[i]) ELSE chunks[i]])

\* ------------------------------------------------------------ regular expressions
\* re.sub(r"\[\[(.*?)\]\]", render_citation, line): leftmost "[[", then the
\* nearest "]]" after it on the same line; the scan goes on after the match.
RECURSIVE SubRoamLinks(_)
SubRoamLinks(line) ==
    LET opens == {p \in 1..(Len(line) - 3) :
                    /\ SubSeq(line, p, p + 1) = <<"[", "[">>
                    /\ \E q \in (p + 2)..(Len(line) - 1) :
                          /\ SubSeq(line, q, q + 1) = <<"]", "]">>
                          /\ \A k \in (p + 2)..(q - 1) : line[k] # NL}
    IN  IF opens = {}
        THEN line
        ELSE LET p == Min(opens)
                 q == Find(line, <<"]", "]">>, p + 2)
             IN  SubSeq(line, 1, p - 1)
                 \o render_citation(SubSeq(line, p + 2, q - 1))
                 \o SubRoamLinks(SubSeq(line, q + 2, Len(line)))

\* re.sub(r"\[(.*?)\]\((.*)\)", \href{target}{label}, line): leftmost "[", the
\* nearest "](" after it that a ")" follows, and the last ")" of the line.  No ")"
\* is left after a match, so there is at most one.
SubInlineLinks(line) ==
    LET e == DotEnd(line)
        closes(p) == {q \in (p + 1)..(e - 2) :
                        /\ line[q] = "]" /\ line[q + 1] = "("
                        /\ \E r \in (q + 2)..e : line[r] = ")"}
        opens == {p \in 1..e : line[p] = "[" /\ closes(p) # {}}
    IN  IF opens = {}
        THEN line
        ELSE LET p == Min(opens)
                 q == Min(closes(p))
                 r == Max({k \in (q + 2)..e : line[k] = ")"})
             IN  SubSeq(line, 1, p - 1)
                 \o <<"\\href{">> \o SubSeq(line, q + 2, r - 1)
                 \o <<"}", "{">> \o SubSeq(line, p + 1, q - 1) \o <<"}">>
                 \o SubSeq(line, r + 1, Len(line))

\* re.match(r"^\$\$([^$]*?)\$\$$", line): the whole line, up to one trailing
\* line terminator, is $$content$$ and content holds no "$".
EqEnd(line) ==
    IF line # <<>> /\ line[Len(line)] = NL THEN Len(line) - 1 ELSE Len(line)

latex_eq_never(line) == FALSE

latex_eq(line) ==
    LET e == EqEnd(line)
    IN  /\ e >= 4
        /\ SubSeq(line, 1, 2) = <<"$", "$">>
        /\ SubSeq(line, e - 1, e) = <<"$", "$">>
        /\ \A k \in 3..(e - 2) : line[k] # "$"

\* latex_eq.group(1)
EqContent(line) == SubSeq(line, 3, EqEnd(line) - 2)

\* f"\\begin{{equation*}}\n{latex_eq.group(1)}\n\\end{{equation*}}"
EquationBlock(content) ==
    <<"\\begin{equation*}", NL>> \o content \o <<NL, "\\end{equation*}">>

\* The else branch of the equation test: markup, inline latex, links.
RenderMarkup(line) ==
    replace_markup_via(
        replace_markup_via(
            replace_markup_via(line, <<"_", "_">>, "\\emph{"),
            <<"*", "*">>, "\\textbf{"),
        <<"^", "^">>, "\\hl{")

\* line.replace("$$", "$")
InlineLatex(line) == replace(line, <<"$", "$">>, <<"$">>)

RenderInline(line) == SubInlineLinks(SubRoamLinks(InlineLatex(RenderMarkup(line))))

\* Lines 106-119: the text of the line after rendering, before the item marker.
RenderLine(line) ==
    IF latex_eq(line) THEN EquationBlock(EqContent(line)) ELSE RenderInline(line)

\* ------------------------------------------------------------ preprocessing
\* The leading-space run, the optional bullet, the text and the terminator of one
\* line of the input file.
RawLine(n, bullet, text) ==
    [i \in 1..n |-> " "] \o (IF bullet THEN <<"-", " ">> ELSE <<>>) \o text \o <<NL>>

\* len(re.match(r" *", line).group())
LeadingSpaces(raw) ==
    Min({i \in 0..Len(raw) : i = Len(raw) \/ raw[i + 1] # " "})

\* re.sub(r"^ *(- )?", "", line)
StripBullet(raw) ==
    LET rest == SubSeq(raw, LeadingSpaces(raw) + 1, Len(raw))
    IN  IF StartsWith(rest, <<"-", " ">>) THEN SubSeq(rest, 3, Len(rest)) ELSE rest

\* ignore_properties of main().
ignore_properties == {"tags", "do", "due"}

\* line.startswith(tuple(f"{s}::" ...)): the line is blanked, terminator included.
BlankIgnored(line) ==
    IF \E s \in ignore_properties : StartsWith(line, <<s, ":", ":">>)
    THEN <<>>
    ELSE line

\* re.sub(r"^\{\{(.+?)\}\}", "", line): a leading {{...}} with something inside.
StripDirective(line) ==
    LET q == Find(line, <<"}", "}">>, 4)
    IN  IF /\ StartsWith(line, <<"{", "{">>)
           /\ q # 0
           /\ q - 1 <= DotEnd(line)
        THEN SubSeq(line, q + 2, Len(line))
        ELSE line

\* The line as the indentation management sees it (after line 64).
Cleaned(raw) == StripDirective(BlankIgnored(StripBullet(raw)))

\* re.search(r"^#", line) is not None
is_section(line) == line # <<>> /\ line[1] = "#"

\* re.sub(r"^<marks> (.*)", "\n\\<cmd>{\1}", line)
HeadingSub(line, marks, cmd) ==
    IF StartsWith(line, marks \o <<" ">>)
    THEN <<NL, cmd>> \o SubSeq(line, Len(marks) + 2, DotEnd(line)) \o <<"}">>
         \o SubSeq(line, DotEnd(line) + 1, Len(line))
    ELSE line

\* Lines 93-95, in their order.
Headings(line) ==
    HeadingSub(
        HeadingSub(
            HeadingSub(line, <<"#">>, "\\section{"),
            <<"#", "#">>, "\\subsection{"),
        <<"#", "#", "#">>, "\\subsubsection{")

\* re.match(r"\\begin\{(.*?)\}", line): the line starts with \begin{name}.
env_begin(line) ==
    /\ line # <<>>
    /\ line[1] = "\\begin{"
    /\ \E q \in 2..DotEnd(line) : line[q] = "}"

\* env_begin.group(1)
EnvName(line) == SubSeq(line, 2, Find(line, <<"}">>, 2) - 1)

\* environment in ["enumerate", "itemize"]
IsListEnv(env) == env \in {<<"enumerate">>, <<"itemize">>}

\* f"\\end{{{env}}}\n"
EndLine(env) == <<"\\end{">> \o env \o <<"}", NL>>

\* ------------------------------------------------------------ the stack
KeepAll(list, v) == list

\* list.remove(v): the first v is removed.
Remove(list, v) ==
    LET i == Min({k \in 1..Len(list) : list[k] = v})
    IN  SubSeq(list, 1, i - 1) \o SubSeq(list, i + 1, Len(list))

\* The closing loop with another test than indent <= ind: indent < ind
\* ("strict"), indent >= ind ("reversed"), or the indents compared as multiples
\* of the indent size ("level").
ClosesBy(mode, indent, ind, size) ==
    CASE mode = "strict" -> indent < ind
      [] mode = "reversed" -> indent >= ind
      [] OTHER -> (indent \div size) <= (ind \div size)

RECURSIVE CloseWhile(_, _, _, _, _)
CloseWhile(mode, indent, size, envs, enums) ==
    IF envs = <<>> \/ ~ClosesBy(mode, indent, envs[Len(envs)].ind, size)
    THEN [environments |-> envs, enum_indents |-> enums,
          add_text |-> <<>>, closed |-> <<>>, raised |-> FALSE]
    ELSE LET top == envs[Len(envs)]
             rest == SubSeq(envs, 1, Len(envs) - 1)
             islist == IsListEnv(top.env)
             found == \E k \in 1..Len(enums) : enums[k] = top.ind + size
         IN  IF islist /\ ~found
             THEN [environments |-> rest, enum_indents |-> enums,
                   add_text |-> EndLine(top.env), closed |-> <<top.env>>,
                   raised |-> TRUE]
             ELSE LET more == CloseWhile(mode, indent, size, rest,
                                  IF islist THEN Remove(enums, top.ind + size)
                                  ELSE enums)
                  IN  [more EXCEPT !.add_text = EndLine(top.env) \o @,
                                   !.closed = <<top.env>> \o @]

CloseEnvsStrict(indent, size, envs, enums) ==
    CloseWhile("strict", indent, size, envs, enums)

CloseEnvsReversed(indent, size, envs, enums) ==
    CloseWhile("reversed", indent, size, envs, enums)

CloseEnvsByLevel(indent, size, envs, enums) ==
    CloseWhile("level", indent, size, envs, enums)

\* Lines 77-86: frames are popped from the top while indent <= ind.  The result
\* holds the new stack and item indents, the \end lines and the names closed;
\* raised tells that enum_indents.remove found no entry (ValueError).
RECURSIVE CloseEnvs(_, _, _, _)
CloseEnvs(indent, size, envs, enums) ==
    IF envs = <<>> \/ ~(indent <= envs[Len(envs)].ind)
    THEN [environments |-> envs, enum_indents |-> enums,
          add_text |-> <<>>, closed |-> <<>>, raised |-> FALSE]
    ELSE LET top == envs[Len(envs)]
             rest == SubSeq(envs, 1, Len(envs) - 1)
             islist == IsListEnv(top.env)
             found == \E k \in 1..Len(enums) : enums[k] = top.ind + size
         IN  IF islist /\ ~found
             THEN [environments |-> rest, enum_indents |-> enums,
                   add_text |-> EndLine(top.env), closed |-> <<top.env>>,
                   raised |-> TRUE]
             ELSE LET more == CloseEnvs(indent, size, rest,
                                  IF islist THEN Remove(enums, top.ind + size)
                                  ELSE enums)
                  IN  [more EXCEPT !.add_text = EndLine(top.env) \o @,
                                   !.closed = <<top.env>> \o @]

ParBreakStrict(indent, par) == indent < par

ParBreakReversed(indent, par) == indent >= par

\* Line 88: indent <= par_indent, both integers.
ParBreak(indent, par) == indent <= par

AssembleBreakFirst(add_text, brk, item, body) ==
    (IF brk THEN <<NL>> ELSE <<>>) \o add_text
    \o (IF item THEN <<"\\item ">> ELSE <<>>) \o body \o <<NL>>

\* Lines 89, 122 and 124-126: what is written for a line, add_text (the \end
\* lines, then the paragraph break) + line (the item marker, then the text) + "\n".
Assemble(add_text, brk, item, body) ==
    add_text \o (IF brk THEN <<NL>> ELSE <<>>)
    \o (IF item THEN <<"\\item ">> ELSE <<>>) \o body \o <<NL>>

\* indent in enum_indents
InEnumIndentsShifted(indent, enums) ==
    \E k \in 1..Len(enums) : enums[k] = indent + 1

InEnumIndents(indent, enums) == \E k \in 1..Len(enums) : enums[k] = indent

\* Lines 128-129: "\n".join of the \end lines of the frames, last opened first.
RECURSIVE EndAllInOpenOrder(_)
EndAllInOpenOrder(envs) ==
    IF envs = <<>> THEN <<>>
    ELSE EndLine(envs[1].env)
         \o (IF Len(envs) > 1 THEN <<NL>> ELSE <<>>)
         \o EndAllInOpenOrder(Tail(envs))

RECURSIVE EndAll(_)
EndAll(envs) ==
    IF envs = <<>> THEN <<>>
    ELSE EndLine(envs[Len(envs)].env)
         \o (IF Len(envs) > 1 THEN <<NL>> ELSE <<>>)
         \o EndAll(SubSeq(envs, 1, Len(envs) - 1))

\* The names of the frames, last opened first.
RECURSIVE NamesTopDown(_)
NamesTopDown(envs) ==
    IF envs = <<>> THEN <<>>
    ELSE <<envs[Len(envs)].env>> \o NamesTopDown(SubSeq(envs, 1, Len(envs) - 1))

\* ------------------------------------------------------------ the conversion
VARIABLES
    pc,              \* "loop": reading lines; "done": outfile complete; "error": an exception ended the run
    indent_size,     \* the configured indent size
    section_indent,  \* indent of the last heading line, or None
    par_indent,      \* the paragraph baseline, or None
    environments,    \* the stack of open frames [ind, env], last opened last
    enum_indents,    \* the item indents of the open list frames
    nlines,          \* lines read so far
    cur,             \* the line processed last: its indent, its text after line 57
                     \* (text) and after line 64 (line), whether the line before it
                     \* was a heading, the paragraph baseline (par_before) and the
                     \* stack (before) it met, the item indents it
                     \* left (enums), the names it closed, whether it broke the
                     \* paragraph, got an item marker, was an equation, its rendered
                     \* text (body), what was written for it (out), and whether it
                     \* was written or raised a TypeError or a ValueError (state)
    pushed,          \* names of all frames pushed so far, in order
    ended,           \* names of all \end{name} written so far, in order
    tail,            \* what was written after the last line (lines 128-131)
    lowest,          \* history: the least indent of the lines read since the last
                     \* heading line, None when there is none
    text_in,         \* text specification: the line handed to the renderer
    text_out,        \* text specification: the renderer's stages on text_in
    runs             \* repeated conversions: which call of convert_to_tex is
                     \* running (run), the lines of the input file (doc), what
                     \* the running call has written (out) and did on each line
                     \* (trace), and the same of the call before it (first)

vars == <<pc, indent_size, section_indent, par_indent, environments, enum_indents,
          nlines, cur, pushed, ended, tail, lowest, text_in, text_out, runs>>

\* The texts (after indent and bullet) the lines of a document are drawn from.
LineTexts ==
    { <<"a">>,
      <<"#", " ", "T">>,
      <<"#", "#", "#", " ", "T">>,
      <<"\\begin{", "itemize", "}">>,
      <<"\\begin{", "proof", "}">>,
      <<"$", "$", "*", "*", "x", "*", "*", "$", "$">>,
      <<"tags", ":", ":", " ", "a">>,
      <<"{", "{", "x", "}", "}", "a">> }

NoLine == [indent |-> 0, text |-> <<>>, line |-> <<>>, after_section |-> FALSE,
           par_before |-> None, before |-> <<>>, enums |-> <<>>,
           closed |-> <<>>, par |-> FALSE, item |-> FALSE, eq |-> FALSE,
           body |-> <<>>, out |-> <<>>, state |-> "none"]

NoRuns == [run |-> 0, doc |-> <<>>, out |-> <<>>, trace |-> <<>>,
           first |-> [pc |-> "none", size |-> 0, out |-> <<>>, trace |-> <<>>]]

NoStages == [state |-> "none", eq |-> FALSE, markup |-> <<>>, latex |-> <<>>,
             links |-> <<>>, out |-> <<>>]

Init ==
    /\ pc = "loop"
    /\ indent_size \in 1..MaxIndentSize
    /\ section_indent = None
    /\ par_indent = None
    /\ environments = <<>>
    /\ enum_indents = <<>>
    /\ nlines = 0
    /\ cur = NoLine
    /\ pushed = <<>>
    /\ ended = <<>>
    /\ tail = <<>>
    /\ lowest = None
    /\ text_in = <<>>
    /\ text_out = NoStages
    /\ runs = NoRuns

\* What one iteration of the loop of convert_to_tex (lines 54-126) computes
\* from a raw line in the state (size, par, envs, enums).
Iteration(raw, size, par, envs, enums) ==
    LET indent == LeadingSpaces(raw)
        line0 == Cleaned(raw)
        sect == is_section(line0)
        \* lines 67-73
        par1 == IF sect THEN None ELSE IF par = None THEN indent ELSE par
    IN  LET cl == CloseEnvs(indent, size, envs, enums)   \* lines 77-86
        IN  [indent |-> indent, text |-> StripBullet(raw), line0 |-> line0, sect |-> sect, par1 |-> par1,
             cl |-> cl,
             \* line 88: indent <= None raises TypeError
             raises |-> cl.raised \/ par1 = None]

\* Lines 88-126 of an iteration that has not raised.
Rendering(it, size) ==
    LET indent == it.indent
        brk == ParBreak(indent, it.par1)                  \* lines 88-90
        line1 == Headings(it.line0)                       \* lines 93-95
        begins == env_begin(line1)                        \* lines 98-103
        name == IF begins THEN EnvName(line1) ELSE <<>>
        enums2 == IF begins /\ IsListEnv(name)
                  THEN Append(it.cl.enum_indents, indent + size)
                  ELSE it.cl.enum_indents
        eq == latex_eq(line1)                             \* lines 106-122
        item == ~eq /\ InEnumIndents(indent, enums2)
        body == RenderLine(line1)
    IN  [brk |-> brk, begins |-> begins, name |-> name, enums2 |-> enums2,
         eq |-> eq, item |-> item, body |-> body]

ProcessLine(raw) ==
    /\ pc = "loop"
    /\ nlines < MaxLines
    /\ nlines' = nlines + 1
    /\ \E it \in {Iteration(raw, indent_size, par_indent, environments, enum_indents)} :
        /\ section_indent' = IF it.sect THEN it.indent ELSE section_indent
        /\ lowest' = IF it.sect THEN None
                      ELSE IF lowest = None THEN it.indent
                      ELSE Min({lowest, it.indent})
        /\ IF it.raises
           THEN /\ pc' = "error"
                /\ par_indent' = it.par1
                /\ environments' = it.cl.environments
                /\ enum_indents' = it.cl.enum_indents
                /\ cur' = [indent |-> it.indent, text |-> it.text, line |-> it.line0,
                           after_section |-> is_section(cur.line),
                           par_before |-> par_indent,
                           before |-> environments, enums |-> it.cl.enum_indents,
                           closed |-> it.cl.closed, par |-> FALSE, item |-> FALSE,
                           eq |-> FALSE, body |-> <<>>, out |-> <<>>,
                           state |-> IF it.cl.raised THEN "value_error"
                                     ELSE "type_error"]
                /\ UNCHANGED <<pushed, ended>>
           ELSE \E r \in {Rendering(it, indent_size)} :
                /\ pc' = "loop"
                /\ par_indent' = IF r.brk THEN it.indent ELSE it.par1
                /\ environments' =
                      IF r.begins
                      THEN Append(it.cl.environments, [ind |-> it.indent, env |-> r.name])
                      ELSE it.cl.environments
                /\ enum_indents' = r.enums2
                /\ cur' = [indent |-> it.indent, text |-> it.text, line |-> it.line0,
                           after_section |-> is_section(cur.line),
                           par_before |-> par_indent,
                           before |-> environments, enums |-> r.enums2,
                           closed |-> it.cl.closed, par |-> r.brk, item |-> r.item,
                           eq |-> r.eq, body |-> r.body,
                           out |-> Assemble(it.cl.add_text, r.brk, r.item, r.body),
                           state |-> "written"]
                /\ pushed' = IF r.begins THEN Append(pushed, r.name) ELSE pushed
                /\ ended' = ended \o it.cl.closed
    /\ UNCHANGED <<indent_size, tail, text_in, text_out>>

\* The input is exhausted (lines 128-131).
EndOfInput ==
    /\ pc = "loop"
    /\ pc' = "done"
    /\ tail' = (IF environments # <<>> THEN EndAll(environments) ELSE <<>>)
               \o <<NL, "\\end{document}">>
    /\ ended' = ended \o NamesTopDown(environments)
    /\ UNCHANGED <<indent_size, section_indent, par_indent, environments,
                   enum_indents, nlines, cur, pushed, lowest, text_in, text_out>>

EndOfDocument == EndOfInput /\ UNCHANGED runs

ReadLine ==
    \E n \in 0..MaxIndent : \E bullet \in BOOLEAN : \E text \in LineTexts :
        ProcessLine(RawLine(n, bullet, text)) /\ UNCHANGED runs

Next == ReadLine \/ EndOfDocument

Spec == Init /\ [][Next]_vars

\* ------------------------------------------------------------ the renderer alone
\* The pieces the lines handed to the renderer are built from.
Pieces ==
    { <<"*", "*">>, <<"_", "_">>, <<"^", "^">>, <<"$", "$">>,
      <<"[", "[">>, <<"]", "]">>, <<"a">>, <<"1">>, <<"_">>,
      <<"[", "a", "]", "(", "x", ")">> }

\* The stages of lines 106-119 on one line.
Stages(line) ==
    [state |-> "rendered", eq |-> latex_eq(line),
     markup |-> RenderMarkup(line),
     latex |-> InlineLatex(RenderMarkup(line)),
     links |-> SubRoamLinks(InlineLatex(RenderMarkup(line))),
     out |-> RenderLine(line)]

InitText ==
    /\ pc = "loop"
    /\ indent_size = 1
    /\ section_indent = None
    /\ par_indent = None
    /\ environments = <<>>
    /\ enum_indents = <<>>
    /\ nlines = 0
    /\ cur = NoLine
    /\ pushed = <<>>
    /\ ended = <<>>
    /\ tail = <<>>
    /\ lowest = None
    /\ text_in = <<>>
    /\ text_out = NoStages
    /\ runs = NoRuns

\* The line under construction gets one more piece.
AddPiece ==
    /\ text_out = NoStages
    /\ nlines < MaxPieces
    /\ \E p \in Pieces : text_in' = text_in \o p
    /\ nlines' = nlines + 1
    /\ UNCHANGED <<pc, indent_size, section_indent, par_indent, environments,
                   enum_indents, cur, pushed, ended, tail, lowest, text_out,
                   runs>>

\* The line, with its terminator, is rendered.
Render ==
    /\ text_out = NoStages
    /\ text_out' = Stages(text_in \o <<NL>>)
    /\ UNCHANGED <<pc, indent_size, section_indent, par_indent, environments,
                   enum_indents, nlines, cur, pushed, ended, tail, lowest, text_in,
                   runs>>

NextText == AddPiece \/ Render

SpecText == InitText /\ [][NextText]_vars

\* ------------------------------------------------------------ repeated conversions
\* Bound of the input file of the repeated conversions.
MaxDocLines == 2

\* The texts its lines are drawn from.
DocTexts ==
    { <<"a">>,
      <<"#", " ", "T">>,
      <<"\\begin{", "itemize", "}">>,
      <<"\\begin{", "proof", "}">> }

\* What a call writes before it reads a line (lines 44 and 46).
Preamble == <<"\\documentclass", "\\begin{document}">>

StaleEnvironments == environments

\* The stack a call starts with (line 51).
FreshEnvironments == <<>>

\* What the running call did on the line it has just processed.
Step(c, envs) ==
    [stack |-> envs, closed |-> c.closed, par |-> c.par, item |-> c.item,
     state |-> c.state]

\* A call of convert_to_tex, whatever was converted before it (lines 41-52).
InitTwice ==
    /\ pc = "loop"
    /\ indent_size \in 1..MaxIndentSize
    /\ section_indent = None
    /\ par_indent = None
    /\ environments = <<>>
    /\ enum_indents = <<>>
    /\ nlines = 0
    /\ cur = NoLine
    /\ pushed = <<>>
    /\ ended = <<>>
    /\ tail = <<>>
    /\ lowest = None
    /\ text_in = <<>>
    /\ text_out = NoStages
    /\ runs = [NoRuns EXCEPT !.out = Preamble]

\* The call reads one more line of an input file not read before; from the
\* second call on, the file is kept to be converted again.
ReadNew ==
    /\ runs.run \in {0, 1}
    /\ nlines < MaxDocLines
    /\ \E n \in 0..MaxIndent : \E text \in DocTexts :
         \E raw \in {RawLine(n, TRUE, text)} :
            /\ ProcessLine(raw)
            /\ runs' = IF runs.run = 0 THEN runs
                       ELSE [runs EXCEPT !.doc = Append(@, raw),
                                         !.out = @ \o cur'.out,
                                         !.trace = Append(@, Step(cur', environments'))]

\* The input file of the call has no more lines.
EndNew ==
    /\ runs.run \in {0, 1}
    /\ EndOfInput
    /\ runs' = IF runs.run = 0 THEN runs ELSE [runs EXCEPT !.out = @ \o tail']

\* convert_to_tex is called again, with any indent size, after a call that
\* returned or raised (lines 41-52): on the file of the call before it, once
\* that file has been kept.
StartAgain ==
    /\ runs.run \in {0, 1}
    /\ pc \in {"done", "error"}
    /\ pc' = "loop"
    /\ indent_size' \in 1..MaxIndentSize
    /\ section_indent' = None
    /\ par_indent' = None
    /\ environments' = FreshEnvironments
    /\ enum_indents' = <<>>
    /\ nlines' = 0
    /\ cur' = NoLine
    /\ pushed' = <<>>
    /\ ended' = <<>>
    /\ tail' = <<>>
    /\ lowest' = None
    /\ runs' = [run |-> runs.run + 1, doc |-> runs.doc, out |-> Preamble,
                trace |-> <<>>,
                first |-> [pc |-> IF runs.run = 0 THEN "none" ELSE pc,
                           size |-> IF runs.run = 0 THEN 0 ELSE indent_size,
                           out |-> IF runs.run = 0 THEN <<>> ELSE runs.out,
                           trace |-> runs.trace]]
    /\ UNCHANGED <<text_in, text_out>>

\* The call reads the next line of the file converted before.
ReadAgain ==
    /\ runs.run = 2
    /\ nlines < Len(runs.doc)
    /\ ProcessLine(runs.doc[nlines + 1])
    /\ runs' = [runs EXCEPT !.out = @ \o cur'.out,
                            !.trace = Append(@, Step(cur', environments'))]

\* The file converted before has no more lines.
EndAgain ==
    /\ runs.run = 2
    /\ nlines = Len(runs.doc)
    /\ EndOfInput
    /\ runs' = [runs EXCEPT !.out = @ \o tail']

NextTwice == ReadNew \/ EndNew \/ StartAgain \/ ReadAgain \/ EndAgain

SpecTwice == InitTwice /\ [][NextTwice]_vars

\* ------------------------------------------------------------ properties
\* The line processed last was handled by an iteration of the loop.
LineSeen == cur.state # "none"
LineWritten == cur.state = "written"

\* The item marker is part of what was written for the line.
HasItemMarker == \E k \in 1..Len(cur.out) : cur.out[k] = "\\item "

\* The number of times name occurs in a sequence of names.
Occurrences(names, name) == Cardinality({k \in 1..Len(names) : names[k] = name})

\* C1: no line puts the converter in an error state: every line is processed
\* without an exception, so every run can reach the end of the document.
C1_NoLineRaises == pc # "error"

\* C2: when the conversion has ended, every frame pushed has been closed exactly
\* once with its own name: the \end{name} emissions (by dedent and at the end of
\* the document) match the pushes name by name, and no frame is left open unclosed.
C2_StackBalance ==
    pc # "loop" =>
        /\ Len(ended) = Len(pushed)
        /\ \A k \in 1..Len(pushed) :
              Occurrences(ended, pushed[k]) = Occurrences(pushed, pushed[k])

\* The same balance, for the runs that reach the end of the document.
StackBalanceWhenDone ==
    pc = "done" =>
        /\ Len(ended) = Len(pushed)
        /\ \A k \in 1..Len(pushed) :
              Occurrences(ended, pushed[k]) = Occurrences(pushed, pushed[k])

FrameLeftOpenByError == pc = "error" /\ Len(ended) < Len(pushed)

\* The line's indent is openIndent + indentSize of a list frame that is open when
\* the line is rendered.
AtItemIndent ==
    \E k \in 1..Len(environments) :
        /\ IsListEnv(environments[k].env)
        /\ cur.indent = environments[k].ind + indent_size

\* C3 as stated: every line written carries the item marker exactly when its
\* indent is openIndent + indentSize of an open list frame.
C3_ItemIffAtItemIndent == LineWritten => (HasItemMarker <=> AtItemIndent)

\* C3, amended: a line written that is not an equation block carries the item
\* marker exactly when its indent is openIndent + indentSize of an open list
\* frame; an equation block never carries it.
C3_ItemIffAtItemIndentUnlessEquation ==
    LineWritten => (HasItemMarker <=> (~cur.eq /\ AtItemIndent))

\* A line at the item indent of a list that an earlier line opened was marked.
C3_ItemLineMarked ==
    /\ LineWritten /\ HasItemMarker /\ AtItemIndent
    /\ cur.closed = <<>>
    /\ cur.before = environments

\* A heading line: #, ## or ### and a space.
IsHeading(line) ==
    \/ StartsWith(line, <<"#", " ">>)
    \/ StartsWith(line, <<"#", "#", " ">>)
    \/ StartsWith(line, <<"#", "#", "#", " ">>)

SectionCommands == {"\\section{", "\\subsection{", "\\subsubsection{"}

\* C4: a heading line is written as its sectioning command and clears the
\* paragraph baseline, and the line after a heading gets no paragraph break.
C4_HeadingReset ==
    /\ (LineSeen /\ IsHeading(cur.line)) =>
          /\ LineWritten
          /\ Len(cur.body) >= 2 /\ cur.body[2] \in SectionCommands
          /\ par_indent = None
          /\ pc # "error"
    /\ (LineWritten /\ cur.after_section) => ~cur.par

\* cur.text starts with an ignored property name followed by "::".
IsIgnored(text) ==
    \E s \in {"tags", "do", "due"} : StartsWith(text, <<s, ":", ":">>)

\* The frames of the stack the line met whose openIndent is >= its indent are
\* closed, top first, and the others are still there.
ClosedForIndent ==
    LET keep == {k \in 1..Len(cur.before) : cur.before[k].ind < cur.indent}
        n == IF keep = {} THEN 0 ELSE Max(keep)
    IN  /\ \A k \in 1..Len(cur.before) : k \in keep <=> k <= n
        /\ Len(cur.closed) = Len(cur.before) - n
        /\ \A j \in 1..Len(cur.closed) :
              cur.closed[j] = cur.before[Len(cur.before) - j + 1].env

\* What is written before the line's own text: the \end lines of the frames it
\* closed and the paragraph break.
Closings ==
    join([j \in 1..Len(cur.closed) |-> <<"\\end{">> \o cur.closed[j] \o <<"}", NL>>])
    \o (IF cur.par THEN <<NL>> ELSE <<>>)

\* C5: an ignored-property line is written as an empty line in every structural
\* state, also at an item indent, and the closing step still runs for its indent.
C5_IgnoredLineEmpty ==
    (LineSeen /\ IsIgnored(cur.text)) =>
        /\ LineWritten
        /\ cur.out = Closings \o <<NL>>
        /\ ClosedForIndent
        /\ environments = SubSeq(cur.before, 1, Len(cur.before) - Len(cur.closed))

\* What the code does instead at an item indent: the marker alone is written.
IgnoredLineGetsItemMarker ==
    LineWritten /\ IsIgnored(cur.text) /\ cur.out = Closings \o <<"\\item ", NL>>

\* Apart from that marker, the ignored line is written empty and closes frames.
IgnoredLineEmptyButForMarker ==
    (LineSeen /\ IsIgnored(cur.text)) =>
        /\ LineWritten
        /\ cur.out = Closings \o (IF AtItemIndent THEN <<"\\item ">> ELSE <<>>) \o <<NL>>
        /\ ClosedForIndent
        /\ environments = SubSeq(cur.before, 1, Len(cur.before) - Len(cur.closed))

\* ------------------------------------------------------------ properties of the renderer
Rendered == text_out.state = "rendered"

\* The line handed to the renderer, with its terminator.
TextLine == text_in \o <<NL>>

\* The text between the brackets when the line is exactly [[text]].
IsWholeLink(line) ==
    /\ Len(line) >= 5
    /\ SubSeq(line, 1, 2) = <<"[", "[">>
    /\ SubSeq(line, Len(line) - 2, Len(line)) = <<"]", "]", NL>>

InnerText(line) == SubSeq(line, 3, Len(line) - 3)

\* C6: a link [[K]] whose text K has the citation-key shape is rendered as the
\* citation command that references K.
C6_CitationReferencesKey ==
    (Rendered /\ IsWholeLink(TextLine) /\ IsCiteKey(InnerText(TextLine))) =>
        text_out.out = <<"\\cite{">> \o InnerText(TextLine) \o <<"}", NL>>

\* What the code writes for every key-shaped link.
CitationIsLiteral ==
    (Rendered /\ IsWholeLink(TextLine) /\ IsCiteKey(InnerText(TextLine))) =>
        text_out.out = CiteLiteral \o <<NL>>

\* s is pre [[t]] post with no bracket in pre and post, t holding no "]]" and
\* not ending in "]": the parts of the one link of s.
LinkParts(s) ==
    LET br == {k \in 1..Len(s) : s[k] \in {"[", "]"}}
        p == IF br = {} THEN 1 ELSE Min(br)
        r == IF br = {} THEN 0 ELSE Max(br)
    IN  [ok |-> /\ r - p >= 3
                /\ SubSeq(s, p, p + 1) = <<"[", "[">>
                /\ SubSeq(s, r - 1, r) = <<"]", "]">>
                /\ Find(SubSeq(s, p + 2, r - 2), <<"]", "]">>, 1) = 0
                /\ (r - 2 >= p + 2 => s[r - 2] # "]"),
         pre |-> SubSeq(s, 1, p - 1),
         t |-> SubSeq(s, p + 2, r - 2),
         post |-> SubSeq(s, r + 1, Len(s))]

PlainTokens == Letters \cup Digits

IsEquationLine(line) ==
    /\ Len(line) >= 5
    /\ line[1] = "$" /\ line[2] = "$"
    /\ line[Len(line) - 2] = "$" /\ line[Len(line) - 1] = "$"
    /\ line[Len(line)] = NL
    /\ \A k \in 3..(Len(line) - 3) : line[k] # "$"

\* C8: an equation line is written as the equation environment around exactly
\* its content, with no markup or link conversion and no item marker, also at an
\* item indent, and the equation environment is not pushed on the stack.
C8_EquationBlock ==
    (LineWritten /\ IsEquationLine(cur.line)) =>
        /\ cur.out = Closings
                     \o <<"\\begin{equation*}", NL>>
                     \o SubSeq(cur.line, 3, Len(cur.line) - 3)
                     \o <<NL, "\\end{equation*}", NL>>
        /\ environments = SubSeq(cur.before, 1, Len(cur.before) - Len(cur.closed))
        /\ enum_indents = cur.enums

\* An equation line with markup inside was written at an item indent.
C8_EquationAtItemIndent ==
    /\ LineWritten /\ IsEquationLine(cur.line) /\ AtItemIndent
    /\ \E k \in 1..Len(cur.line) : cur.line[k] = "*"

\* ------------------------------------------------------------ markup pairing
Delimiters == {<<"_", "_">>, <<"*", "*">>, <<"^", "^">>}

CommandOf(d) ==
    IF d = <<"_", "_">> THEN "\\emph{"
    ELSE IF d = <<"*", "*">> THEN "\\textbf{" ELSE "\\hl{"

NumberOf(s, token) == Cardinality({k \in 1..Len(s) : s[k] = token})

PairedIn(line, d) == count(line, d) > 0 /\ count(line, d) % 2 = 0

\* C9 as stated: on every line with an even number of occurrences of a
\* delimiter, each pair becomes its wrapping command and no occurrence of the
\* delimiter remains in the line's output.
C9_PairsConverted ==
    Rendered =>
        \A d \in Delimiters :
            PairedIn(TextLine, d) =>
                /\ count(text_out.out, d) = 0
                /\ 2 * NumberOf(text_out.out, CommandOf(d)) = count(TextLine, d)

\* The line is pre d inner d post, with no other markup delimiter anywhere.
OnePair(line, d) ==
    /\ count(line, d) = 2
    /\ \A e \in Delimiters \ {d} : count(line, e) = 0

\* C9, amended: on every line that is not an equation block and has an even
\* number of occurrences of a delimiter (as str.split finds them), each pair becomes its wrapping command
\* around the enclosed content and no occurrence of the delimiter remains after
\* the markup substitutions, nor in the line's output when the line holds no
\* double-bracket link.
C9_PairsConvertedUnlessEquation ==
    (Rendered /\ ~text_out.eq) =>
        \A d \in Delimiters :
            PairedIn(TextLine, d) =>
                /\ count(text_out.markup, d) = 0
                /\ 2 * NumberOf(text_out.markup, CommandOf(d)) = count(TextLine, d)
                /\ 2 * NumberOf(text_out.out, CommandOf(d)) = count(TextLine, d)
                /\ Find(TextLine, <<"[", "[">>, 1) = 0 => count(text_out.out, d) = 0
                /\ OnePair(TextLine, d) =>
                      LET chunks == split(TextLine, d)
                      IN  text_out.markup =
                             chunks[1] \o <<CommandOf(d)>> \o chunks[2] \o <<"}">>
                             \o chunks[3]

\* a**1** was rendered as a\textbf{1}.
C9_PairRendered ==
    /\ Rendered
    /\ text_in = <<"a", "*", "*", "1", "*", "*">>
    /\ text_out.out = <<"a", "\\textbf{", "1", "}", NL>>

\* ------------------------------------------------------------ end of document
\* C10: when the input is exhausted, the frames still open are closed top first,
\* each \end{name} followed by a line break, and the document-end marker is
\* written after them, last.
C10_EndOfDocumentClosing ==
    pc = "done" =>
        LET n == Len(environments)
            ends == [k \in 1..n |->
                        <<"\\end{">> \o environments[n - k + 1].env \o <<"}", NL>>
                        \o (IF k < n THEN <<NL>> ELSE <<>>)]
        IN  /\ tail = join(ends) \o <<NL, "\\end{document}">>
            /\ tail[Len(tail)] = "\\end{document}"
            /\ Len(ended) >= n
            /\ \A k \in 1..n :
                  ended[Len(ended) - n + k] = environments[n - k + 1].env

\* The document ended with two frames of different names open.
C10_TwoFramesClosedAtEnd ==
    /\ pc = "done"
    /\ Len(environments) = 2
    /\ environments[1].env # environments[2].env

\* ------------------------------------------------------------ the closing step
\* The number of frames of the stack the line met that it had to close: those of
\* the longest top segment whose openIndent is >= the line's indent.
RECURSIVE TopSegment(_, _)
TopSegment(envs, indent) ==
    IF envs = <<>> \/ envs[Len(envs)].ind < indent
    THEN 0
    ELSE 1 + TopSegment(SubSeq(envs, 1, Len(envs) - 1), indent)

\* The \end lines of the top n frames of envs, top first.
EndLinesOfTop(envs, n) ==
    join([j \in 1..n |-> <<"\\end{">> \o envs[Len(envs) - j + 1].env \o <<"}", NL>>])

\* The stack the line left when its closing step was over.
AfterClosing == SubSeq(cur.before, 1, Len(cur.before) - Len(cur.closed))

\* C12: a line with indent n pops exactly the longest top segment of frames with
\* openIndent >= n, top first, each with the \end of its own name; every frame
\* left has openIndent < n and no frame with openIndent < n is closed.
C12_ClosingRule ==
    LineSeen =>
        LET n == TopSegment(cur.before, cur.indent)
        IN  /\ Len(cur.closed) = n
            /\ \A j \in 1..n : cur.closed[j] = cur.before[Len(cur.before) - j + 1].env
            /\ \A k \in 1..Len(cur.before) :
                  k <= Len(cur.before) - n <=> cur.before[k].ind < cur.indent
            /\ SubSeq(environments, 1, Len(cur.before) - n) = AfterClosing
            /\ Len(environments) - Len(AfterClosing) \in {0, 1}
            /\ LineWritten =>
                  SubSeq(cur.out, 1, Len(EndLinesOfTop(cur.before, n)))
                     = EndLinesOfTop(cur.before, n)

\* A line closed two frames and left a third one open.
C12_TwoClosedOneLeft ==
    LineWritten /\ Len(cur.closed) = 2 /\ Len(AfterClosing) = 1

\* C13: after every line the stack is non-decreasing in openIndent, bottom to top.
C13_StackNonDecreasing ==
    \A k \in 1..(Len(environments) - 1) :
        environments[k].ind <= environments[k + 1].ind

\* A line closed a frame and pushed its own on a frame left open.
C13_PushedAfterClosing ==
    /\ LineWritten /\ cur.closed # <<>>
    /\ Len(environments) = 2
    /\ Len(AfterClosing) = 1

\* The item indents of the list frames of the stack, bottom to top.
ListFrames == {k \in 1..Len(environments) : IsListEnv(environments[k].env)}

ItemIndentsMatchFrames ==
    /\ Len(enum_indents) = Cardinality(ListFrames)
    /\ \A k \in ListFrames :
          enum_indents[Cardinality({i \in ListFrames : i <= k})]
             = environments[k].ind + indent_size

\* C14: after every line the item indents are exactly openIndent + indentSize of
\* the list frames on the stack, one entry per frame, so a line is marked only
\* at the item indent of a list frame that is still open.
C14_ItemIndentLifecycle ==
    /\ ItemIndentsMatchFrames
    /\ (LineWritten /\ HasItemMarker) => AtItemIndent

\* A line closed a list frame, whose item indent went with it, and was marked
\* at the item indent of the list frame left open.
C14_InnerListClosedOuterMarks ==
    /\ LineWritten /\ HasItemMarker
    /\ \E j \in 1..Len(cur.closed) : IsListEnv(cur.closed[j])
    /\ Len(enum_indents) = 1
    /\ Cardinality({k \in 1..Len(cur.before) : IsListEnv(cur.before[k].env)}) = 2

\* ------------------------------------------------------------ the paragraph baseline
\* The line met no paragraph baseline: it establishes it.
Establishes == cur.par_before = None

C16_OutputOrder ==
    LineWritten =>
        LET ends == EndLinesOfTop(cur.before, TopSegment(cur.before, cur.indent))
        IN  /\ cur.out = ends
                         \o (IF cur.par THEN <<NL>> ELSE <<>>)
                         \o (IF cur.item THEN <<"\\item ">> ELSE <<>>)
                         \o cur.body \o <<NL>>
            /\ env_begin(cur.line) =>
                  /\ environments =
                        Append(AfterClosing,
                               [ind |-> cur.indent, env |-> EnvName(cur.line)])
                  /\ Find(cur.out, <<"\\begin{">>, 1) > Len(ends)

\* A line closed a frame, broke the paragraph and opened an environment.
C16_ClosedBrokeOpened ==
    LineWritten /\ cur.closed # <<>> /\ cur.par /\ env_begin(cur.line)

\* ------------------------------------------------------------ implicit properties
\* C18: after every line the stack is strictly increasing in openIndent, so the
\* item indents are pairwise distinct and the removal of openIndent + indentSize
\* on a list frame's close finds its entry and leaves those of the open frames.
C18_StrictlyIncreasing ==
    /\ \A k \in 1..(Len(environments) - 1) :
          environments[k].ind < environments[k + 1].ind
    /\ \A i, j \in 1..Len(enum_indents) :
          i # j => enum_indents[i] # enum_indents[j]
    /\ cur.state # "value_error"
    /\ ItemIndentsMatchFrames

\* A line closed a list frame while another list frame stayed open.
C18_ListClosedUnderList ==
    /\ LineSeen
    /\ \E j \in 1..Len(cur.closed) : IsListEnv(cur.closed[j])
    /\ \E k \in 1..Len(AfterClosing) : IsListEnv(AfterClosing[k].env)

\* C19: the paragraph baseline is the least indent of the lines read since the
\* last heading: it never increases, and a line deeper than the baseline
\* breaks no paragraph.
C19_BaselineIsLowestIndent ==
    /\ par_indent = lowest
    /\ (LineWritten /\ ~Establishes) =>
          /\ par_indent <= cur.par_before
          /\ cur.indent > cur.par_before => ~cur.par

\* A shallow line lowered the baseline and a deeper line then broke no paragraph.
C19_DeeperLineNoBreak ==
    /\ LineWritten /\ ~cur.par
    /\ cur.indent > par_indent
    /\ par_indent = 0
    /\ nlines >= 3

\* ------------------------------------------------------------ repeated conversions: properties
\* The running call converts again, to its end, the file of the call before it.
ConvertedAgain == runs.run = 2 /\ pc \in {"done", "error"}

\* C11: a call starts with an empty stack, no item indents, and no section and
\* paragraph indent, whatever was converted before it; converting the same
\* lines again with the same indent size writes the same output, line after
\* line, and ends the same way.
C11_SameOutputAgain ==
    /\ (pc = "loop" /\ nlines = 0) =>
          /\ environments = <<>> /\ enum_indents = <<>>
          /\ section_indent = None /\ par_indent = None
          /\ runs.out = Preamble
    /\ (runs.run = 2 /\ indent_size = runs.first.size) =>
          /\ Len(runs.out) <= Len(runs.first.out)
          /\ runs.out = SubSeq(runs.first.out, 1, Len(runs.out))
          /\ ConvertedAgain => runs.out = runs.first.out /\ pc = runs.first.pc

\* A file whose conversion left a frame to close at its end was converted
\* again with the same indent size, after a call that left a frame open too.
C11_OpenFrameConvertedAgain ==
    /\ ConvertedAgain /\ pc = "done"
    /\ indent_size = runs.first.size
    /\ environments # <<>>
    /\ Len(runs.doc) = MaxDocLines

\* C17: converting the same lines with another indent size gives, line by
\* line, the same stack, the same closings and the same paragraph breaks (and
\* the same exception, if any); only the item markers may differ.
C17_IndentSizeMarksItemsOnly ==
    runs.run = 2 =>
        \A k \in 1..Len(runs.trace) :
            /\ runs.trace[k].stack = runs.first.trace[k].stack
            /\ runs.trace[k].closed = runs.first.trace[k].closed
            /\ runs.trace[k].par = runs.first.trace[k].par
            /\ runs.trace[k].state = runs.first.trace[k].state

\* The same lines were converted with two indent sizes and a line was marked
\* as an item under one of them only.
C17_ItemMarkedUnderOneSize ==
    /\ ConvertedAgain
    /\ indent_size # runs.first.size
    /\ \E k \in 1..Len(runs.trace) :
          runs.trace[k].item # runs.first.trace[k].item

====
